---------------------------- MODULE Spec2Model ----------------------------
(***************************************************************************)
(* Secure echo channel of challenge2/main.go: SecureReader (sR.Read),      *)
(* SecureWriter (sW.Write), the public-key handshake of Dial and Serve,    *)
(* the one-message echo of Serve and the client mode of main, run over a   *)
(* TCP-like connection.                                                    *)
(*                                                                         *)
(* Bytes are integers 0..255 and keys, nonces and frames are sequences of  *)
(* bytes of the program's widths (KeySize, NonceSize, box.Overhead).       *)
(* golang.org/x/crypto/nacl/box is a library outside the repository; it is *)
(* modelled by a small cipher with the same interface and layout           *)
(* (Diffie-Hellman in Z_251^*, an additive stream cipher, a 16-byte tag    *)
(* placed before the ciphertext).  The tag detects a wrong key, a changed  *)
(* length below 16 bytes and any single changed byte, which are the        *)
(* alterations the transport of this model can make.                       *)
(*                                                                         *)
(* The transport makes at most one fault per run (a short read, one        *)
(* flipped bit, an I/O error, a failed or partial write, a failing random  *)
(* source); end-of-stream after the peer closed is not a fault.            *)
(***************************************************************************)
EXTENDS Integers, Sequences, FiniteSets, TLC

VARIABLES
    cpc,      \* position of the client process (main client mode, Dial)
    spc,      \* position of the server process (Serve)
    msg,      \* os.Args[2], the message the client sends
    key,      \* key[e]: the key pair box.GenerateKey gave endpoint e
    peer,     \* peer[e]: peerPub of endpoint e, *[KeySize]byte
    sess,     \* sess[e]: the (priv, peerPub) the sR/sW of e were built with
    buf,      \* buf[e]: the caller's buffer handed to sR.Read
    ret,      \* ret[e]: what sR.Read gave its caller
    wret,     \* wret[e]: what sW.Write gave its caller
    rd,       \* rd[e]: the last underlying conn.Read of e
    kr,       \* kr[e]: e's conn.Read of the peer's public key
    wr,       \* wr[e]: the last underlying conn.Write of e
    wire,     \* wire[d]: writes in flight in direction d, oldest first
    closed,   \* closed[e]: e's end of the connection is closed
    sent,     \* sent[e]: every payload e handed to conn.Write
    out,      \* lines the client printed on standard output
    err,      \* err[e]: the error Dial/main or Serve ended with
    dialed,   \* net.Dial has established the connection
    faulted   \* the environment's one fault has happened

vars == <<cpc, spc, msg, key, peer, sess, buf, ret, wret, rd, kr, wr, wire,
          closed, sent, out, err, dialed, faulted>>

-----------------------------------------------------------------------------
(* Sizes *)

KeySize == 32

NonceSize == 24

Overhead == 16

\* bufSize of Serve, 1 << 15 in the program, scaled down
bufSize == 2

\* longest message the client is given
MaxMsgLen == 3

Min(a, b) == IF a < b THEN a ELSE b

Zeros(n) == [i \in 1..n |-> 0]

\* "hello", the text the client's messages are cut from
Text == <<104, 101, 108, 108, 111>>

\* the messages os.Args[2] ranges over: the text repeated, cut at 0..MaxMsgLen
Messages ==
    {[i \in 1..n |-> Text[((i - 1) % Len(Text)) + 1]] : n \in 0..MaxMsgLen}

\* copy(dst, src) of Go: min(len(dst), len(src)) elements, dst keeps its length
Copy(dst, src) ==
    [i \in 1..Len(dst) |-> IF i <= Len(src) THEN src[i] ELSE dst[i]]

\* s[lo:hi] of Go on a 1-based sequence, for 0 <= lo <= hi <= len(s)
Slice(s, lo, hi) == SubSeq(s, lo + 1, hi)

\* s[i] + s[i + step] + s[i + 2 step] + ...
RECURSIVE SumFrom(_, _, _)
SumFrom(s, i, step) ==
    IF i > Len(s) THEN 0 ELSE s[i] + SumFrom(s, i + step, step)

-----------------------------------------------------------------------------
(* nacl/box, modelled *)

RECURSIVE ModExp(_, _)
ModExp(b, e) == IF e = 0 THEN 1 ELSE (b * ModExp(b, e - 1)) % 251

\* the number a 32-byte key stands for
KeyVal(k) == SumFrom(k, 1, 1) % 251

KeyOf(v) == [i \in 1..KeySize |-> IF i = 1 THEN v ELSE 0]

\* the scalars the random source yields to box.GenerateKey
Scalars == {3, 7}

\* box.GenerateKey with the random source yielding scalar k
GenerateKey(k) == [pub |-> KeyOf(ModExp(6, k)), priv |-> KeyOf(k)]

\* box.Precompute: the key shared by (priv, peerPub) and (peerPriv, pub)
Precompute(peerPub, priv) == ModExp(KeyVal(peerPub), KeyVal(priv))

KeyStream(k, nonce, i) == (k + nonce[((i - 1) % NonceSize) + 1] + i) % 256

\* the 16-byte authenticator of ciphertext ct under (k, nonce): byte j sums
\* the key, the length and the bytes of nonce || ct at j, j + 16, j + 32, ...
Tag(k, nonce, ct) ==
    [j \in 1..Overhead |->
        (k + Len(ct) + SumFrom(nonce \o ct, j, Overhead)) % 256]

\* box.Seal(nil, m, nonce, peerPub, priv): tag || ciphertext
Seal(m, nonce, peerPub, priv) ==
    LET k  == Precompute(peerPub, priv)
        ct == [i \in 1..Len(m) |-> (m[i] + KeyStream(k, nonce, i)) % 256]
    IN  Tag(k, nonce, ct) \o ct

\* decryption that does not verify the tag
Open_NoVerify(b, nonce, peerPub, priv) ==
    IF Len(b) < Overhead THEN [m |-> <<>>, ok |-> FALSE]
    ELSE LET k  == Precompute(peerPub, priv)
             ct == SubSeq(b, Overhead + 1, Len(b))
         IN  [m  |-> [i \in 1..Len(ct) |->
                        (ct[i] + 256 - KeyStream(k, nonce, i)) % 256],
              ok |-> TRUE]

\* box.Open(nil, b, nonce, peerPub, priv): (m, ok); (nil, false) when b is
\* shorter than the tag or the tag does not verify
Open(b, nonce, peerPub, priv) ==
    IF Len(b) < Overhead THEN [m |-> <<>>, ok |-> FALSE]
    ELSE LET k  == Precompute(peerPub, priv)
             ct == SubSeq(b, Overhead + 1, Len(b))
         IN  IF SubSeq(b, 1, Overhead) # Tag(k, nonce, ct)
             THEN [m |-> <<>>, ok |-> FALSE]
             ELSE [m  |-> [i \in 1..Len(ct) |->
                             (ct[i] + 256 - KeyStream(k, nonce, i)) % 256],
                   ok |-> TRUE]

\* the values the random source yields to genNonce
NonceSeeds == {5, 9}

\* genNonce with the random source yielding the bytes of seed s
genNonce(s) == [i \in 1..NonceSize |-> (s * i) % 256]

-----------------------------------------------------------------------------
(* SecureReader and SecureWriter *)

\* sR.Read returning the count of the underlying read instead of len(m)
sRRead_ReturnsN(p, r, peerPub, priv) ==
    LET bs == Copy(Zeros(Len(p) + NonceSize + Overhead), r.data)
    IN  IF r.err # "nil" /\ r.err # "EOF"
        THEN [n |-> 0, err |-> r.err, p |-> p]
        ELSE IF r.n < NonceSize
        THEN [n |-> 0, err |-> "panic", p |-> p]
        ELSE LET nonce == Slice(bs, 0, NonceSize)
                 o     == Open(Slice(bs, NonceSize, r.n), nonce, peerPub, priv)
             IN  IF ~o.ok
                 THEN [n |-> 0, err |-> "failed decrypting message", p |-> p]
                 ELSE [n |-> r.n, err |-> "nil", p |-> Copy(p, o.m)]

\* sR.Read without the check of ok
sRRead_IgnoresOk(p, r, peerPub, priv) ==
    LET bs == Copy(Zeros(Len(p) + NonceSize + Overhead), r.data)
    IN  IF r.err # "nil" /\ r.err # "EOF"
        THEN [n |-> 0, err |-> r.err, p |-> p]
        ELSE IF r.n < NonceSize
        THEN [n |-> 0, err |-> "panic", p |-> p]
        ELSE LET nonce == Slice(bs, 0, NonceSize)
                 o     == Open(Slice(bs, NonceSize, r.n), nonce, peerPub, priv)
             IN  [n |-> Len(o.m), err |-> "nil", p |-> Copy(p, o.m)]

\* sR.Read handing the undecrypted bytes to the caller when ok is false
sRRead_ReleasesOnError(p, r, peerPub, priv) ==
    LET bs == Copy(Zeros(Len(p) + NonceSize + Overhead), r.data)
    IN  IF r.err # "nil" /\ r.err # "EOF"
        THEN [n |-> 0, err |-> r.err, p |-> p]
        ELSE IF r.n < NonceSize
        THEN [n |-> 0, err |-> "panic", p |-> p]
        ELSE LET nonce == Slice(bs, 0, NonceSize)
                 o     == Open(Slice(bs, NonceSize, r.n), nonce, peerPub, priv)
             IN  IF ~o.ok
                 THEN [n   |-> Min(Len(p), r.n - NonceSize),
                       err |-> "failed decrypting message",
                       p   |-> Copy(p, Slice(bs, NonceSize, r.n))]
                 ELSE [n |-> Len(o.m), err |-> "nil", p |-> Copy(p, o.m)]

\* a read buffer one byte longer
bsLen_OneMore(p) == Len(p) + NonceSize + Overhead + 1

\* len(bs) of sR.Read(p): bs := make([]byte, len(p)+NonceSize+box.Overhead)
bsLen(p) == Len(p) + NonceSize + Overhead

\* sR.Read(p) when the underlying sr.r.Read(bs) gave r = (n, err, data):
\* the result (n, err) and the caller's buffer afterwards.  err = "panic"
\* stands for the run-time panic of bs[NonceSize:n] when n < NonceSize.
sRRead(p, r, peerPub, priv) ==
    LET bs == Copy(Zeros(bsLen(p)), r.data)
    IN  IF r.err # "nil" /\ r.err # "EOF"
        THEN [n |-> 0, err |-> r.err, p |-> p]
        ELSE IF r.n < NonceSize
        THEN [n |-> 0, err |-> "panic", p |-> p]
        ELSE LET nonce == Slice(bs, 0, NonceSize)
                 o     == Open(Slice(bs, NonceSize, r.n), nonce, peerPub, priv)
             IN  IF ~o.ok
                 THEN [n |-> 0, err |-> "failed decrypting message", p |-> p]
                 ELSE [n |-> Len(o.m), err |-> "nil", p |-> Copy(p, o.m)]

\* a frame that starts with the length of the plaintext
sWFrame_LengthPrefixed(p, n, peerPub, priv) ==
    <<Len(p)>> \o n \o Seal(p, n, peerPub, priv)

\* the frame sW.Write(p) hands to the underlying writer: box.Seal appends the
\* box to the nonce
sWFrame(p, n, peerPub, priv) == n \o Seal(p, n, peerPub, priv)

\* a Write that drops the error of the underlying write
sWRet_SwallowsError(p, w) == [n |-> w.n, err |-> "nil"]

\* a Write that counts the plaintext bytes
sWRet_PlainLen(p, w) == [n |-> Len(p), err |-> w.err]

\* what sW.Write(p) returns when the underlying sw.w.Write(out) gave w
sWRet(p, w) == [n |-> w.n, err |-> w.err]

-----------------------------------------------------------------------------
(* The connection *)

Ends == {"c", "s"}

NoRead == [op |-> "none", n |-> 0, err |-> "nil", fault |-> "none"]

NoWrite == [op |-> "none", n |-> 0, err |-> "nil"]

NoRet == [n |-> 0, err |-> "none"]

NoKey == [pub |-> <<>>, priv |-> <<>>]

NoSession == [priv |-> <<>>, peerPub |-> <<>>]

\* b with bit k flipped
FlipBit(b, k) == IF (b \div (2 ^ k)) % 2 = 0 THEN b + 2 ^ k ELSE b - 2 ^ k

\* the bits the transport may flip in a byte
FlipBits == {0, 7}

FlipAt(s, pos, k) == [s EXCEPT ![pos] = FlipBit(@, k)]

\* What conn.Read(b) with len(b) = cap can give on direction d, whose writer
\* is endpoint w: the bytes of the oldest write in flight, as many as fit;
\* end-of-stream when nothing is in flight and the writer closed its end;
\* and, as the run's one fault, a short read, one flipped bit or an error.
\* rest is what stays in flight of the write and took says whether the read
\* consumed from it.
ReadOutcomes(d, cap, w) ==
    LET q == wire[d]
        ioerr == IF faulted THEN {}
                 ELSE {[n |-> 0, err |-> "io", data |-> <<>>, rest |-> <<>>,
                        took |-> FALSE, fault |-> "io"]}
    IN  IF q = <<>>
        THEN (IF closed[w]
              THEN {[n |-> 0, err |-> "EOF", data |-> <<>>, rest |-> <<>>,
                     took |-> FALSE, fault |-> "none"]}
              ELSE {}) \cup ioerr
        ELSE LET h == Head(q)
                 m == Min(cap, Len(h))
                 whole == [n |-> m, err |-> "nil", data |-> SubSeq(h, 1, m),
                           rest |-> SubSeq(h, m + 1, Len(h)), took |-> TRUE,
                           fault |-> "none"]
             IN  {whole} \cup
                 (IF faulted THEN {}
                  ELSE {[n |-> k, err |-> "nil", data |-> SubSeq(h, 1, k),
                         rest |-> SubSeq(h, k + 1, Len(h)), took |-> TRUE,
                         fault |-> "short"] : k \in 1..(m - 1)}
                       \cup
                       {[whole EXCEPT !.data = FlipAt(@, pos, k),
                                      !.fault = "tamper"] :
                            pos \in 1..m, k \in FlipBits}
                       \cup ioerr)

\* the wire after a read with outcome r on direction d
TakeWire(d, r) ==
    IF ~r.took THEN wire
    ELSE [wire EXCEPT ![d] = IF r.rest = <<>> THEN Tail(@)
                             ELSE <<r.rest>> \o Tail(@)]

\* What conn.Write(b) can give: all of b written; or, as the run's one
\* fault, an error after only the first k bytes were written.
WriteOutcomes(b) ==
    {[n |-> Len(b), err |-> "nil", put |-> b, fault |-> "none"]} \cup
    (IF faulted THEN {}
     ELSE {[n |-> k, err |-> "io", put |-> SubSeq(b, 1, k), fault |-> "io"] :
               k \in 0..(Len(b) - 1)})

\* the wire after a write with outcome w on direction d
PutWire(d, w) ==
    IF w.put = <<>> THEN wire ELSE [wire EXCEPT ![d] = Append(@, w.put)]

ReadInfo(op, r) == [op |-> op, n |-> r.n, err |-> r.err, fault |-> r.fault]

WriteInfo(op, w) == [op |-> op, n |-> w.n, err |-> w.err]

-----------------------------------------------------------------------------
(* Initial state: nothing generated, nothing connected *)

Init ==
    /\ cpc = "gen"
    /\ spc = "accept"
    /\ msg \in Messages
    /\ key = [e \in Ends |-> NoKey]
    /\ peer = [e \in Ends |-> <<>>]
    /\ sess = [e \in Ends |-> NoSession]
    /\ buf = [e \in Ends |-> <<>>]
    /\ ret = [e \in Ends |-> NoRet]
    /\ wret = [e \in Ends |-> NoRet]
    /\ rd = [e \in Ends |-> NoRead]
    /\ kr = [e \in Ends |-> NoRead]
    /\ wr = [e \in Ends |-> NoWrite]
    /\ wire = [d \in {"c2s", "s2c"} |-> <<>>]
    /\ closed = [e \in Ends |-> FALSE]
    /\ sent = [e \in Ends |-> <<>>]
    /\ out = <<>>
    /\ err = [e \in Ends |-> "nil"]
    /\ dialed = FALSE
    /\ faulted = FALSE

-----------------------------------------------------------------------------
(* The client: main in client mode, with Dial *)

\* Dial writing the private half
DialKeyWrite_Priv(k) == k.priv

\* what Dial writes as its half of the handshake
DialKeyWrite(k) == k.pub

\* Dial without the check of n
DialKeyRead_NoLength(n, e) == IF e # "nil" THEN e ELSE "nil"

\* Dial's checks of conn.Read(peerPub[:]) = (n, e): the error Dial returns
DialKeyRead(n, e) ==
    IF e # "nil" THEN e
    ELSE IF n # KeySize THEN "partial read"
    ELSE "nil"

\* the client process ended: the system closes its end of the connection
ClientExit(pc, e) ==
    /\ cpc' = pc
    /\ err' = [err EXCEPT !["c"] = e]
    /\ closed' = [closed EXCEPT !["c"] = dialed]

\* Dial returned (nil, e): conn, when there is one, is left as it is
DialReturn(e) ==
    /\ cpc' = "dialErr"
    /\ err' = [err EXCEPT !["c"] = e]
    /\ UNCHANGED closed

\* Dial, box.GenerateKey
CGenerateKey ==
    /\ cpc = "gen"
    /\ \/ \E k \in Scalars :
            /\ key' = [key EXCEPT !["c"] = GenerateKey(k)]
            /\ cpc' = "dial"
            /\ UNCHANGED <<err, closed, faulted>>
       \/ /\ ~faulted
          /\ faulted' = TRUE
          /\ UNCHANGED key
          /\ DialReturn("rand")
    /\ UNCHANGED <<spc, msg, peer, sess, buf, ret, wret, rd, kr, wr, wire,
                   sent, out, dialed>>

\* Dial, net.Dial: the listener is listening before Serve accepts
CDial ==
    /\ cpc = "dial"
    /\ \/ /\ dialed' = TRUE
          /\ cpc' = "hsWrite"
          /\ UNCHANGED <<err, closed, faulted>>
       \/ /\ ~faulted
          /\ faulted' = TRUE
          /\ UNCHANGED dialed
          /\ DialReturn("dial")
    /\ UNCHANGED <<spc, msg, key, peer, sess, buf, ret, wret, rd, kr, wr, wire,
                   sent, out>>

\* a Dial that goes to read the peer's key without writing its own
CHsWrite_ReadFirst ==
    /\ cpc = "hsWrite"
    /\ cpc' = "hsRead"
    /\ UNCHANGED <<spc, msg, key, peer, sess, buf, ret, wret, rd, kr, wr, wire,
                   closed, sent, out, err, dialed, faulted>>

\* Dial, conn.Write(pub[:])
CHsWrite ==
    /\ cpc = "hsWrite"
    /\ \E w \in WriteOutcomes(DialKeyWrite(key["c"])) :
          /\ sent' = [sent EXCEPT !["c"] = Append(@, DialKeyWrite(key["c"]))]
          /\ wire' = PutWire("c2s", w)
          /\ wr' = [wr EXCEPT !["c"] = WriteInfo("key", w)]
          /\ faulted' = (faulted \/ w.fault # "none")
          /\ IF w.err # "nil" THEN DialReturn(w.err)
             ELSE IF w.n # KeySize THEN DialReturn("partial write")
             ELSE /\ cpc' = "hsRead"
                  /\ UNCHANGED <<err, closed>>
    /\ UNCHANGED <<spc, msg, key, peer, sess, buf, ret, wret, rd, kr, out,
                   dialed>>

\* a Dial that builds its session without waiting for the peer's key
CHsRead_NoWait ==
    /\ cpc = "hsRead"
    /\ peer' = [peer EXCEPT !["c"] = Zeros(KeySize)]
    /\ sess' = [sess EXCEPT !["c"] =
                  [priv |-> key["c"].priv, peerPub |-> peer'["c"]]]
    /\ cpc' = "write"
    /\ UNCHANGED <<spc, msg, key, buf, ret, wret, rd, kr, wr, wire, closed,
                   sent, out, err, dialed, faulted>>

\* Dial, conn.Read(peerPub[:]) and the construction of the sRWC
CHsRead ==
    /\ cpc = "hsRead"
    /\ \E r \in ReadOutcomes("s2c", KeySize, "s") :
          /\ wire' = TakeWire("s2c", r)
          /\ rd' = [rd EXCEPT !["c"] = ReadInfo("key", r)]
          /\ kr' = [kr EXCEPT !["c"] = ReadInfo("key", r)]
          /\ faulted' = (faulted \/ r.fault # "none")
          /\ peer' = [peer EXCEPT !["c"] = Copy(Zeros(KeySize), r.data)]
          /\ IF DialKeyRead(r.n, r.err) # "nil"
             THEN DialReturn(DialKeyRead(r.n, r.err)) /\ UNCHANGED sess
             ELSE /\ sess' = [sess EXCEPT !["c"] =
                                [priv |-> key["c"].priv, peerPub |-> peer'["c"]]]
                  /\ cpc' = "write"
                  /\ UNCHANGED <<err, closed>>
    /\ UNCHANGED <<spc, msg, key, buf, ret, wret, wr, sent, out, dialed>>

\* main, log.Fatal(err) after Dial returned an error
CFatal ==
    /\ cpc = "dialErr"
    /\ ClientExit("fatal", err["c"])
    /\ UNCHANGED <<spc, msg, key, peer, sess, buf, ret, wret, rd, kr, wr, wire,
                   sent, out, dialed, faulted>>

\* main, conn.Write([]byte(os.Args[2])): sW.Write
CWrite ==
    /\ cpc = "write"
    /\ \/ \E s \in NonceSeeds :
            LET n == genNonce(s)
                f == sWFrame(msg, n, sess["c"].peerPub, sess["c"].priv)
            IN  /\ sent' = [sent EXCEPT !["c"] = Append(@, f)]
                /\ \E w \in WriteOutcomes(f) :
                   /\ wire' = PutWire("c2s", w)
                   /\ wr' = [wr EXCEPT !["c"] = WriteInfo("frame", w)]
                   /\ wret' = [wret EXCEPT !["c"] = sWRet(msg, w)]
                   /\ faulted' = (faulted \/ w.fault # "none")
                   /\ IF sWRet(msg, w).err # "nil"
                      THEN ClientExit("fatal", sWRet(msg, w).err)
                      ELSE /\ cpc' = "read"
                           /\ UNCHANGED <<err, closed>>
       \/ /\ ~faulted
          /\ faulted' = TRUE
          /\ wret' = [wret EXCEPT !["c"] = [n |-> 0, err |-> "rand"]]
          /\ ClientExit("fatal", "rand")
          /\ UNCHANGED <<sent, wire, wr>>
    /\ UNCHANGED <<spc, msg, key, peer, sess, buf, ret, rd, kr, out, dialed>>

\* main, buf := make([]byte, len(os.Args[2])), conn.Read(buf): sR.Read, and
\* the print of buf[:n]
CRead ==
    /\ cpc = "read"
    /\ \E r \in ReadOutcomes("s2c", bsLen(msg), "s") :
          LET res == sRRead(Zeros(Len(msg)), r, sess["c"].peerPub,
                            sess["c"].priv)
          IN  /\ wire' = TakeWire("s2c", r)
              /\ rd' = [rd EXCEPT !["c"] = ReadInfo("frame", r)]
              /\ faulted' = (faulted \/ r.fault # "none")
              /\ buf' = [buf EXCEPT !["c"] = res.p]
              /\ ret' = [ret EXCEPT !["c"] = [n |-> res.n, err |-> res.err]]
              /\ IF res.err = "panic"
                 THEN ClientExit("panic", "panic") /\ UNCHANGED out
                 ELSE IF res.err # "nil" /\ res.err # "EOF"
                 THEN ClientExit("fatal", res.err) /\ UNCHANGED out
                 ELSE /\ out' = Append(out, Slice(res.p, 0, res.n))
                      /\ ClientExit("done", "nil")
    /\ UNCHANGED <<spc, msg, key, peer, sess, wret, kr, wr, sent, dialed>>

-----------------------------------------------------------------------------
(* The server: Serve *)

\* a Serve that writes its private key
ServeKeyWrite_Priv(k) == k.priv

\* what Serve writes as its half of the handshake
ServeKeyWrite(k) == k.pub

\* a Serve that does not check the length of the key read
ServeKeyRead_NoLength(n, e) == IF e # "nil" THEN e ELSE "nil"

\* Serve's checks of conn.Read(peerPub[:]) = (n, e): the error Serve returns
ServeKeyRead(n, e) ==
    IF e # "nil" THEN e
    ELSE IF n # KeySize THEN "illegal key size"
    ELSE "nil"

\* Serve echoing the whole of buf
Echo_WholeBuf(b, n) == b

\* the plaintext Serve echoes: buf[:n]
Echo(b, n) == Slice(b, 0, n)

\* Serve returned e after the accept: the deferred conn.Close has run
ServeReturn(pc, e) ==
    /\ spc' = pc
    /\ err' = [err EXCEPT !["s"] = e]
    /\ closed' = [closed EXCEPT !["s"] = TRUE]

\* l.Accept()
SAccept ==
    /\ spc = "accept"
    /\ \/ /\ dialed
          /\ spc' = "hsRead"
          /\ UNCHANGED <<err, faulted>>
       \/ /\ ~faulted
          /\ faulted' = TRUE
          /\ spc' = "error"
          /\ err' = [err EXCEPT !["s"] = "accept"]
    /\ UNCHANGED <<cpc, msg, key, peer, sess, buf, ret, wret, rd, kr, wr, wire,
                   closed, sent, out, dialed>>

\* conn.Read(peerPub[:])
SHsRead ==
    /\ spc = "hsRead"
    /\ \E r \in ReadOutcomes("c2s", KeySize, "c") :
          /\ wire' = TakeWire("c2s", r)
          /\ rd' = [rd EXCEPT !["s"] = ReadInfo("key", r)]
          /\ kr' = [kr EXCEPT !["s"] = ReadInfo("key", r)]
          /\ faulted' = (faulted \/ r.fault # "none")
          /\ peer' = [peer EXCEPT !["s"] = Copy(Zeros(KeySize), r.data)]
          /\ IF ServeKeyRead(r.n, r.err) # "nil"
             THEN ServeReturn("error", ServeKeyRead(r.n, r.err))
             ELSE /\ spc' = "gen"
                  /\ UNCHANGED <<err, closed>>
    /\ UNCHANGED <<cpc, msg, key, sess, buf, ret, wret, wr, sent, out,
                   dialed>>

\* box.GenerateKey
SGenerateKey ==
    /\ spc = "gen"
    /\ \/ \E k \in Scalars :
            /\ key' = [key EXCEPT !["s"] = GenerateKey(k)]
            /\ spc' = "hsWrite"
            /\ UNCHANGED <<err, closed, faulted>>
       \/ /\ ~faulted
          /\ faulted' = TRUE
          /\ UNCHANGED key
          /\ ServeReturn("error", "rand")
    /\ UNCHANGED <<cpc, msg, peer, sess, buf, ret, wret, rd, kr, wr, wire,
                   sent, out, dialed>>

\* conn.Write(pub[:]) and the construction of r and w
SHsWrite ==
    /\ spc = "hsWrite"
    /\ \E w \in WriteOutcomes(ServeKeyWrite(key["s"])) :
          /\ sent' = [sent EXCEPT !["s"] = Append(@, ServeKeyWrite(key["s"]))]
          /\ wire' = PutWire("s2c", w)
          /\ wr' = [wr EXCEPT !["s"] = WriteInfo("key", w)]
          /\ faulted' = (faulted \/ w.fault # "none")
          /\ IF w.err # "nil"
             THEN ServeReturn("error", w.err) /\ UNCHANGED sess
             ELSE IF w.n # KeySize
             THEN ServeReturn("error", "partial pub key write") /\ UNCHANGED sess
             ELSE /\ sess' = [sess EXCEPT !["s"] =
                                [priv |-> key["s"].priv, peerPub |-> peer["s"]]]
                  /\ spc' = "read"
                  /\ UNCHANGED <<err, closed>>
    /\ UNCHANGED <<cpc, msg, key, peer, buf, ret, wret, rd, kr, out,
                   dialed>>

\* buf := make([]byte, bufSize, bufSize), r.Read(buf)
SRead ==
    /\ spc = "read"
    /\ \E r \in ReadOutcomes("c2s", bsLen(Zeros(bufSize)), "c") :
          LET res == sRRead(Zeros(bufSize), r, sess["s"].peerPub,
                            sess["s"].priv)
          IN  /\ wire' = TakeWire("c2s", r)
              /\ rd' = [rd EXCEPT !["s"] = ReadInfo("frame", r)]
              /\ faulted' = (faulted \/ r.fault # "none")
              /\ buf' = [buf EXCEPT !["s"] = res.p]
              /\ ret' = [ret EXCEPT !["s"] = [n |-> res.n, err |-> res.err]]
              /\ IF res.err = "panic" THEN ServeReturn("panic", "panic")
                 ELSE IF res.err # "nil" THEN ServeReturn("error", res.err)
                 ELSE /\ spc' = "write"
                      /\ UNCHANGED <<err, closed>>
    /\ UNCHANGED <<cpc, msg, key, peer, sess, wret, kr, wr, sent, out,
                   dialed>>

\* w.Write(buf[:n]): sW.Write, and the return of Serve
SWrite ==
    /\ spc = "write"
    /\ \/ \E s \in NonceSeeds :
            LET n == genNonce(s)
                f == sWFrame(Echo(buf["s"], ret["s"].n), n,
                             sess["s"].peerPub, sess["s"].priv)
            IN  /\ sent' = [sent EXCEPT !["s"] = Append(@, f)]
                /\ \E w \in WriteOutcomes(f) :
                   /\ wire' = PutWire("s2c", w)
                   /\ wr' = [wr EXCEPT !["s"] = WriteInfo("frame", w)]
                   /\ wret' = [wret EXCEPT !["s"] =
                                 sWRet(Echo(buf["s"], ret["s"].n), w)]
                   /\ faulted' = (faulted \/ w.fault # "none")
                   /\ IF sWRet(Echo(buf["s"], ret["s"].n), w).err # "nil"
                      THEN ServeReturn("error",
                                       sWRet(Echo(buf["s"], ret["s"].n), w).err)
                      ELSE ServeReturn("done", "nil")
       \/ /\ ~faulted
          /\ faulted' = TRUE
          /\ wret' = [wret EXCEPT !["s"] = [n |-> 0, err |-> "rand"]]
          /\ ServeReturn("error", "rand")
          /\ UNCHANGED <<sent, wire, wr>>
    /\ UNCHANGED <<cpc, msg, key, peer, sess, buf, ret, rd, kr, out, dialed>>

-----------------------------------------------------------------------------

Next ==
    \/ CGenerateKey
    \/ CDial
    \/ CHsWrite
    \/ CHsRead
    \/ CFatal
    \/ CWrite
    \/ CRead
    \/ SAccept
    \/ SHsRead
    \/ SGenerateKey
    \/ SHsWrite
    \/ SRead
    \/ SWrite

Spec == Init /\ [][Next]_vars

\* the steps of the client process and of the Serve goroutine
Client == CGenerateKey \/ CDial \/ CHsWrite \/ CHsRead \/ CFatal \/ CWrite \/ CRead

Server == SAccept \/ SHsRead \/ SGenerateKey \/ SHsWrite \/ SRead \/ SWrite

\* The client's next step is possible without a fault of the environment: it
\* is not ended, and if it is in a conn.Read then there are bytes to read or
\* the peer has closed.
ClientCanStep ==
    \/ cpc \in {"gen", "dial", "hsWrite", "dialErr", "write"}
    \/ cpc \in {"hsRead", "read"} /\ (wire["s2c"] # <<>> \/ closed["s"])

\* the same for Serve; l.Accept returns once the client has dialed
ServerCanStep ==
    \/ spc = "accept" /\ dialed
    \/ spc \in {"gen", "hsWrite", "write"}
    \/ spc \in {"hsRead", "read"} /\ (wire["c2s"] # <<>> \/ closed["c"])

\* the client, or Serve, is scheduled: its position moves
ClientRuns ==
    /\ ClientCanStep
    /\ cpc' \in {"dial", "hsWrite", "hsRead", "dialErr", "write", "read",
                 "done", "fatal", "panic"} \ {cpc}

ServerRuns ==
    /\ ServerCanStep
    /\ spc' \in {"hsRead", "gen", "hsWrite", "read", "write", "done", "error",
                 "panic"} \ {spc}

\* Both processes are scheduled fairly: a process whose next step stays
\* possible takes a step. Nothing obliges the environment to fail.
FairSpec == Spec /\ WF_cpc(ClientRuns) /\ WF_spc(ServerRuns)

\* ClientCanStep and ServerCanStep are the enabling conditions of the steps
\* of Client and Server that involve no fault
CanStepIsEnabled ==
    /\ ClientCanStep <=> ENABLED (Client /\ faulted' = faulted)
    /\ ServerCanStep <=> ENABLED (Server /\ faulted' = faulted)

-----------------------------------------------------------------------------
(* Properties *)

FrameLen(m) == Len(m) + NonceSize + Overhead

AuthError == "failed decrypting message"

\* both handshakes completed and each side holds the other's public key
Matched ==
    /\ sess["c"] # NoSession
    /\ sess["s"] # NoSession
    /\ sess["c"].peerPub = key["s"].pub
    /\ sess["s"].peerPub = key["c"].pub

\* endpoint e's sR.Read was handed, in one underlying read and unaltered,
\* the whole frame of a plaintext of length k
GotWholeFrame(e, k) ==
    /\ ret[e].err # "none"
    /\ rd[e] = [op |-> "frame", n |-> FrameLen(<<>>) + k, err |-> "nil",
                fault |-> "none"]

\* the plaintext the server's sW.Write sealed
Echoed == Echo(buf["s"], ret["s"].n)

\* C1 (round trip): when a SecureReader holding the matching keys gets the
\* whole frame of a message m no longer than its caller's buffer in one
\* underlying read, Read returns (len(m), nil) and the buffer starts with m.
\* Checked for the server's reader (m is the client's message) and for the
\* client's reader (m is the plaintext the server echoed).
C1_RoundTrip ==
    /\ (/\ Matched
        /\ wret["c"] = [n |-> FrameLen(msg), err |-> "nil"]
        /\ GotWholeFrame("s", Len(msg))
        /\ Len(msg) <= bufSize)
       => /\ ret["s"] = [n |-> Len(msg), err |-> "nil"]
          /\ SubSeq(buf["s"], 1, Len(msg)) = msg
    /\ (/\ Matched
        /\ wret["s"] = [n |-> FrameLen(Echoed), err |-> "nil"]
        /\ GotWholeFrame("c", Len(Echoed))
        /\ Len(Echoed) <= Len(msg))
       => /\ ret["c"] = [n |-> Len(Echoed), err |-> "nil"]
          /\ SubSeq(buf["c"], 1, Len(Echoed)) = Echoed

\* both readers have returned a non-empty message from a whole frame
C1_Witness ==
    /\ Matched
    /\ Len(msg) = bufSize
    /\ GotWholeFrame("s", Len(msg))
    /\ GotWholeFrame("c", Len(msg))
    /\ buf["c"] = msg

\* C2 (end-to-end echo): in a run without a transport fault, where every
\* write is delivered as one read, with a message no longer than the server's
\* buffer, once the client's Read has returned the client has read and
\* printed exactly its message.
C2_EndToEndEcho ==
    (/\ ~faulted
     /\ Len(msg) <= bufSize
     /\ cpc \in {"done", "fatal", "panic"})
    => /\ cpc = "done"
       /\ ret["c"] = [n |-> Len(msg), err |-> "nil"]
       /\ buf["c"] = msg
       /\ out = <<msg>>

C2_Witness ==
    /\ ~faulted
    /\ cpc = "done"
    /\ spc = "done"
    /\ msg = <<104, 101>>
    /\ out = <<msg>>

\* C3 (authentication boundary): when the keys of the two sessions do not
\* match (the reader's pair is unrelated to the writer's), a frame of the
\* client's SecureWriter delivered unaltered to the server's SecureReader
\* makes Read return (0, authentication failure) and no plaintext reaches
\* the caller's buffer.
C3_AuthBoundary ==
    (/\ sess["c"] # NoSession
     /\ sess["s"] # NoSession
     /\ ~Matched
     /\ wret["c"] = [n |-> FrameLen(msg), err |-> "nil"]
     /\ ret["s"].err # "none"
     /\ rd["s"].op = "frame" /\ rd["s"].err = "nil" /\ rd["s"].fault = "none")
    => /\ ret["s"] = [n |-> 0, err |-> AuthError]
       /\ buf["s"] = Zeros(bufSize)

\* a whole frame of a non-empty message was rejected under unrelated keys
C3_Witness ==
    /\ sess["c"] # NoSession
    /\ sess["s"] # NoSession
    /\ ~Matched
    /\ Len(msg) = bufSize
    /\ GotWholeFrame("s", Len(msg))
    /\ ret["s"] = [n |-> 0, err |-> AuthError]

\* C4 (tamper detection): a frame delivered with one bit flipped at any one
\* position (nonce, tag or ciphertext) makes Read return (0, authentication
\* failure); and a Read that succeeds yields exactly the plaintext that was
\* written.
C4_TamperDetected ==
    /\ \A e \in Ends :
          (rd[e].op = "frame" /\ rd[e].fault = "tamper")
          => ret[e] = [n |-> 0, err |-> AuthError]
    /\ ret["s"].err = "nil" => Echo(buf["s"], ret["s"].n) = msg
    /\ ret["c"].err = "nil" =>
          /\ ret["c"].n = Len(Echoed)
          /\ SubSeq(buf["c"], 1, ret["c"].n) = Echoed

\* a whole frame with one flipped bit was rejected by the client's reader
C4_Witness ==
    /\ Len(msg) > 0
    /\ rd["c"] = [op |-> "frame", n |-> FrameLen(msg), err |-> "nil",
                  fault |-> "tamper"]
    /\ ret["c"] = [n |-> 0, err |-> AuthError]

\* C5 (short handshake rejection): in both roles, a read of the peer's public
\* key that delivers fewer than KeySize bytes ends the handshake in an error
\* and no session (SecureReader/SecureWriter) is built.
C5_ShortHandshake ==
    /\ (rd["c"].op = "key" /\ rd["c"].n < KeySize)
       => /\ cpc \in {"dialErr", "fatal"}
          /\ err["c"] # "nil"
          /\ sess["c"] = NoSession
    /\ (rd["s"].op = "key" /\ rd["s"].n < KeySize)
       => /\ spc = "error"
          /\ err["s"] # "nil"
          /\ sess["s"] = NoSession

\* the client got 16 of the 32 bytes and Dial returned "partial read"
C5_Witness ==
    /\ rd["c"] = [op |-> "key", n |-> 16, err |-> "nil", fault |-> "short"]
    /\ err["c"] = "partial read"
    /\ sess["c"] = NoSession

\* the plaintext endpoint e's sW.Write is given
Plain(e) == IF e = "c" THEN msg ELSE Echoed

\* w is a frame of e's SecureWriter: a nonce followed by the box of e's
\* plaintext under e's session keys
IsFrame(e, w) ==
    \E s \in NonceSeeds :
        w = sWFrame(Plain(e), genNonce(s), sess[e].peerPub, sess[e].priv)

\* the bytes of k occur in w, contiguously
Contains(w, k) ==
    \E i \in 0..(Len(w) - Len(k)) : SubSeq(w, i + 1, i + Len(k)) = k

\* C7 (the private key is never transmitted): every payload an endpoint has
\* handed to the connection is its own public key or a frame of its
\* SecureWriter, and none contains the endpoint's private key.
C7_PrivateKeyNotSent ==
    \A e \in Ends : \A i \in 1..Len(sent[e]) :
        /\ sent[e][i] = key[e].pub \/ IsFrame(e, sent[e][i])
        /\ ~Contains(sent[e][i], key[e].priv)

\* both endpoints have written their key and their frame
C7_Witness ==
    /\ Len(sent["c"]) = 2
    /\ Len(sent["s"]) = 2
    /\ Len(msg) > 0

\* C8 (no plaintext on failure): when sR.Read returns an error it returns 0
\* bytes and leaves the caller's buffer as it was (zeroed); after such a
\* Read, Serve has returned the error without writing an echo frame and the
\* client has exited without printing.
C8_NoPlaintextOnError ==
    /\ \A e \in Ends :
          ret[e].err \notin {"none", "nil", "panic"}
          => /\ ret[e].n = 0
             /\ buf[e] = Zeros(Len(buf[e]))
    /\ ret["s"].err \notin {"none", "nil", "panic"}
       => /\ spc = "error"
          /\ err["s"] = ret["s"].err
          /\ Len(sent["s"]) = 1
          /\ wret["s"] = NoRet
    /\ ret["c"].err \notin {"none", "nil", "panic"}
       => /\ cpc = "fatal"
          /\ out = <<>>

\* the server's Read failed authentication on a non-empty message
C8_Witness ==
    /\ Len(msg) > 0
    /\ rd["s"].op = "frame"
    /\ rd["s"].n >= FrameLen(<<>>)
    /\ ret["s"] = [n |-> 0, err |-> AuthError]
    /\ spc = "error"

\* C9 (end-of-stream reported distinctly): when the underlying read gives
\* end-of-stream with zero bytes, sR.Read returns an end-of-stream outcome to
\* its caller.  The code panics instead.
C9_EofDistinct ==
    \A e \in Ends :
        (rd[e].op = "frame" /\ rd[e].err = "EOF" /\ rd[e].n = 0)
        => ret[e].err = "EOF"

\* C10 (authentication failure is a value): when the underlying read gives
\* n bytes without error and they do not authenticate, sR.Read returns the
\* authentication failure to its caller.  The code panics when n < NonceSize.
C10_AuthFailureIsValue ==
    \A e \in Ends :
        (rd[e].op = "frame" /\ rd[e].err = "nil" /\ ret[e].err # "nil")
        => ret[e].err = AuthError

\* the frame e handed to its underlying writer in sW.Write
LastSent(e) == sent[e][Len(sent[e])]

\* C11 (short or failed underlying write): when the underlying write of a
\* frame took fewer bytes than the frame or returned an error, sW.Write
\* returned an error, the caller went no further, and that call made the one
\* underlying write only (the key write and the frame write, nothing after).
C11_WriteFails ==
    \A e \in Ends :
        (/\ wr[e].op = "frame"
         /\ (wr[e].n < Len(LastSent(e)) \/ wr[e].err # "nil"))
        => /\ wret[e].err # "nil"
           /\ wret[e].err = wr[e].err
           /\ Len(sent[e]) = 2
           /\ IF e = "c" THEN cpc = "fatal" ELSE spc = "error"
           /\ err[e] = wret[e].err

\* Serve's w.Write had 10 bytes of its frame taken by the connection
C11_Witness ==
    /\ wr["s"] = [op |-> "frame", n |-> 10, err |-> "io"]
    /\ wret["s"] = [n |-> 10, err |-> "io"]
    /\ Len(LastSent("s")) > 10
    /\ spc = "error"

\* a step of Serve met an error: the accept, the key read, the key
\* generation, the key write, the secure read or the secure write
ServeStepFailed ==
    \/ spc \in {"error", "panic"}
    \/ rd["s"].op = "key" /\ ServeKeyRead(rd["s"].n, rd["s"].err) # "nil"
    \/ rd["s"].op = "frame" /\ rd["s"].err # "nil"
    \/ wr["s"].err # "nil"

\* Serve ran nothing after the step that failed
NoLaterStep ==
    /\ err["s"] = "accept" => rd["s"] = NoRead
    /\ ServeKeyRead(kr["s"].n, kr["s"].err) # "nil"
       => key["s"] = NoKey /\ sent["s"] = <<>>
    /\ key["s"] = NoKey => sent["s"] = <<>>
    /\ (wr["s"].op = "key" /\ (wr["s"].err # "nil" \/ wr["s"].n # KeySize))
       => sess["s"] = NoSession /\ rd["s"].op = "key"
    /\ ret["s"].err \notin {"none", "nil"}
       => Len(sent["s"]) = 1 /\ wret["s"] = NoRet

\* C12 (Serve aborts on error): an error at any step of Serve ends the run
\* with that error returned to Serve's caller, the accepted connection
\* closed, and no later step run.
C12_ServeAbort ==
    ServeStepFailed
    => /\ spc = "error"
       /\ err["s"] \notin {"nil", "panic"}
       /\ err["s"] # "accept" => closed["s"]
       /\ NoLaterStep

\* the same for every error the secure read reports as a value: all steps
\* but a secure read whose underlying read gave fewer than 24 bytes
C12_AbortUnlessPanic ==
    (ServeStepFailed /\ spc # "panic") => C12_ServeAbort

\* e's handshake read or write failed or moved fewer than 32 bytes
HandshakeFailed(e) ==
    \/ kr[e].op = "key" /\ (kr[e].err # "nil" \/ kr[e].n # KeySize)
    \/ wr[e].op = "key" /\ (wr[e].err # "nil" \/ wr[e].n # KeySize)

\* Dial or Serve has returned its error to its caller
Returned(e) ==
    IF e = "c" THEN cpc \in {"dialErr", "fatal"} ELSE spc = "error"

\* C13 (handshake failure aborts the connection): in either role, once a
\* handshake read or write has failed or come up short, Dial or Serve has
\* returned an error, the connection is closed, and no session was built
\* from the partly filled peer key.
C13_HandshakeAbort ==
    \A e \in Ends :
        HandshakeFailed(e)
        => /\ Returned(e)
           /\ err[e] # "nil"
           /\ closed[e]
           /\ sess[e] = NoSession

\* the same without the close on the Dial side: Serve closes the connection
\* and neither side uses the partial key
C13_AbortButDialLeavesOpen ==
    \A e \in Ends :
        HandshakeFailed(e)
        => /\ Returned(e)
           /\ err[e] # "nil"
           /\ e = "s" => closed[e]
           /\ sess[e] = NoSession
           /\ wret[e] = NoRet /\ ret[e] = NoRet

\* Serve's Read met a complete authentic frame whose plaintext is longer
\* than buf: the client's frame, written whole over a transport without fault
OversizeFrameRead ==
    /\ rd["s"].op = "frame"
    /\ ~faulted
    /\ Len(msg) > bufSize

\* C14 as claimed (reader truncation): on a complete authentic frame whose
\* plaintext is longer than the buffer, Read succeeds with the first n
\* plaintext bytes in the buffer; and a successful Read returns at most n.
C14_Truncates ==
    /\ OversizeFrameRead
       => /\ ret["s"].err = "nil"
          /\ buf["s"] = SubSeq(msg, 1, bufSize)
    /\ \A e \in Ends : ret[e].err = "nil" => ret[e].n <= Len(buf[e])

\* C14 as amended: on such a frame Read takes the len(p)+24+16 bytes its
\* read buffer holds, which is not the whole frame, and does not succeed: it
\* returns 0 and the authentication failure and leaves the buffer as it was;
\* and a successful Read returns at most n.
C14_OversizeRejected ==
    /\ OversizeFrameRead
       => /\ rd["s"].n = bsLen(Zeros(bufSize))
          /\ rd["s"].n < Len(LastSent("c"))
          /\ ret["s"] = [n |-> 0, err |-> AuthError]
          /\ buf["s"] = Zeros(bufSize)
    /\ \A e \in Ends : ret[e].err = "nil" => ret[e].n <= Len(buf[e])

\* Serve read bufSize+40 bytes of the frame of a longer message and refused
C14_Witness ==
    /\ OversizeFrameRead
    /\ rd["s"].n = bufSize + NonceSize + Overhead
    /\ ret["s"] = [n |-> 0, err |-> AuthError]
    /\ spc = "error"

\* C15 (one frame per write): an sW.Write that got its nonce made exactly
\* one underlying write, of the 24-byte nonce followed by the box of the
\* plaintext, len(p) + 24 + 16 bytes in all with nothing in front; an
\* sW.Write whose nonce generation failed made no underlying write.
C15_OneFramePerWrite ==
    \A e \in Ends :
        /\ wret[e].err = "rand"
           => /\ Len(sent[e]) = 1
              /\ wr[e].op = "key"
        /\ (wret[e] # NoRet /\ wret[e].err # "rand")
           => /\ Len(sent[e]) = 2
              /\ wr[e].op = "frame"
              /\ Len(LastSent(e)) = Len(Plain(e)) + 24 + 16
              /\ \E s \in NonceSeeds :
                    /\ SubSeq(LastSent(e), 1, 24) = genNonce(s)
                    /\ SubSeq(LastSent(e), 25, Len(LastSent(e)))
                         = Seal(Plain(e), genNonce(s), sess[e].peerPub,
                                sess[e].priv)

\* Serve wrote the frame of a two-byte echo; the client had done the same
C15_Witness ==
    /\ spc = "done"
    /\ Len(Echoed) = 2
    /\ Len(sent["s"]) = 2
    /\ Len(LastSent("s")) = 42
    /\ wr["c"].op = "frame"

\* e's key read returned the 32 bytes its peer wrote
KeyReadWhole(e) ==
    kr[e] = [op |-> "key", n |-> KeySize, err |-> "nil", fault |-> "none"]

\* C16 (handshake order and key agreement): Dial has written its public key
\* when it reads the peer's; Serve has read the peer's key, in full, when it
\* generates its own, and has generated it when it writes; and when both
\* have built their session from key reads the transport did not alter, each
\* side's peerPub is the public key the other generated.
C16_HandshakeOrder ==
    /\ kr["c"].op = "key"
       => /\ wr["c"].op # "none"
          /\ Len(sent["c"]) >= 1
          /\ sent["c"][1] = key["c"].pub
    /\ wr["c"].op = "none" => kr["c"] = NoRead /\ peer["c"] = <<>>
    /\ key["s"] # NoKey
       => ServeKeyRead(kr["s"].n, kr["s"].err) = "nil" /\ kr["s"].op = "key"
    /\ kr["s"].op = "none" => key["s"] = NoKey /\ wr["s"] = NoWrite
    /\ wr["s"].op # "none" => key["s"] # NoKey /\ sent["s"][1] = key["s"].pub
    /\ (/\ sess["c"] # NoSession
        /\ sess["s"] # NoSession
        /\ KeyReadWhole("c")
        /\ KeyReadWhole("s"))
       => /\ sess["c"].peerPub = key["s"].pub
          /\ sess["s"].peerPub = key["c"].pub
          /\ sess["c"].priv = key["c"].priv
          /\ sess["s"].priv = key["s"].priv

\* both handshakes are complete over an unaltered transport, with different
\* key pairs on the two sides
C16_Witness ==
    /\ sess["c"] # NoSession
    /\ sess["s"] # NoSession
    /\ KeyReadWhole("c")
    /\ KeyReadWhole("s")
    /\ key["c"].pub # key["s"].pub
    /\ sess["c"].peerPub = key["s"].pub
    /\ cpc = "write"

\* the steps of Serve in order: Listening (accept), Accepted (hsRead, gen,
\* hsWrite), HandshakeComplete (read, write), MessageRelayed and Closed
\* (done); every step may end Serve with an error, the secure read with a
\* panic
ServeOrder ==
    {<<"accept", "hsRead">>, <<"hsRead", "gen">>, <<"gen", "hsWrite">>,
     <<"hsWrite", "read">>, <<"read", "write">>, <<"write", "done">>,
     <<"read", "panic">>}
    \cup {<<s, "error">> :
            s \in {"accept", "hsRead", "gen", "hsWrite", "read", "write"}}

\* both handshake steps of Serve succeeded
ServeHandshakeDone ==
    /\ kr["s"].op = "key" /\ kr["s"].n = KeySize /\ kr["s"].err = "nil"
    /\ wr["s"] = [op |-> "key", n |-> KeySize, err |-> "nil"]
    /\ sess["s"] = [priv |-> key["s"].priv, peerPub |-> peer["s"]]

\* one step of a single relay
SingleRelayStep ==
    /\ spc' # spc => <<spc, spc'>> \in ServeOrder
    /\ ret'["s"] # ret["s"]
       => /\ spc = "read" /\ spc' # "read"
          /\ ret["s"] = NoRet
          /\ ServeHandshakeDone
    /\ wret'["s"] # wret["s"]
       => /\ spc = "write" /\ spc' \in {"done", "error"}
          /\ wret["s"] = NoRet
          /\ ret["s"].err = "nil"
    /\ sent'["s"] # sent["s"] /\ spc = "write"
       => \E s \in NonceSeeds :
             sent'["s"] = Append(sent["s"],
                 genNonce(s) \o Seal(SubSeq(buf["s"], 1, ret["s"].n),
                                     genNonce(s), sess["s"].peerPub,
                                     sess["s"].priv))
    /\ spc' = "done" => closed'["s"]

\* C17 (single relay): Serve moves only forward through accept, handshake,
\* secure read, secure write and return, so it accepts, reads and writes at
\* most once each; its secure read runs only after both handshake steps
\* succeeded; and the plaintext it hands to the secure write is the n bytes
\* the secure read returned.
C17_SingleRelay == [][SingleRelayStep]_vars

\* Serve relayed a two-byte message and returned nil
C17_Witness ==
    /\ spc = "done"
    /\ err["s"] = "nil"
    /\ ret["s"] = [n |-> 2, err |-> "nil"]
    /\ wret["s"].err = "nil"
    /\ closed["s"]

\* C18 (strict alternation): each direction of the connection holds at most
\* one written and not yet fully read message; in particular when a frame is
\* pending the key written before it in that direction has been read, so no
\* read can span two writes.
C18_StrictAlternation ==
    /\ \A d \in {"c2s", "s2c"} : Len(wire[d]) <= 1
    /\ (wr["c"].op = "frame" /\ wire["c2s"] # <<>>)
       => kr["s"].op = "key" /\ kr["s"].n = KeySize
    /\ (wr["s"].op = "frame" /\ wire["s2c"] # <<>>)
       => kr["c"].op = "key" /\ kr["c"].n = KeySize

\* the client's frame is pending towards Serve, which has read the key and
\* written its own, already read by the client
C18_Witness ==
    /\ wr["c"] = [op |-> "frame", n |-> FrameLen(msg), err |-> "nil"]
    /\ wire["c2s"] = <<LastSent("c")>>
    /\ wire["s2c"] = <<>>
    /\ spc = "read"
    /\ Len(sent["s"]) = 1

\* e waits in a conn.Read for bytes its peer has not written, the peer's end
\* being open
ReadBlocked(e) ==
    IF e = "c"
    THEN cpc \in {"hsRead", "read"} /\ wire["s2c"] = <<>> /\ ~closed["s"]
    ELSE spc \in {"hsRead", "read"} /\ wire["c2s"] = <<>> /\ ~closed["c"]

NoMutualReadBlock == ~(ReadBlocked("c") /\ ReadBlocked("s"))

\* both processes have ended
Terminated ==
    /\ cpc \in {"done", "fatal", "panic"}
    /\ spc \in {"done", "error", "panic"}

\* Serve returned nil with the connection closed and the client has the echo
Finished ==
    /\ spc = "done" /\ err["s"] = "nil" /\ closed["s"]
    /\ cpc = "done" /\ out = <<msg>>

\* C19 as claimed (termination without deadlock): the two processes are
\* never both blocked reading from each other, and in every fair run
\* without a transport fault Serve eventually has returned nil with the
\* connection closed and the client has the echo.
C19_Terminates ==
    /\ []NoMutualReadBlock
    /\ <>(faulted \/ Finished)

\* C19 as amended: never both blocked reading; every fair run without a
\* transport fault ends with both processes terminated; with a message that
\* fits Serve's buffer it ends with Serve returning nil and the client
\* holding the echo, and with a longer message it ends with Serve returning
\* the authentication failure and the client without an echo.
C19_TerminatesWithinBuffer ==
    /\ []NoMutualReadBlock
    /\ <>(faulted \/ Terminated)
    /\ <>(faulted \/ Len(msg) > bufSize \/ Finished)
    /\ []((Terminated /\ ~faulted /\ Len(msg) > bufSize)
           => (spc = "error" /\ err["s"] = AuthError /\ out = <<>>))

\* a run without fault has ended with the echo of a two-byte message
C19_Witness ==
    /\ ~faulted
    /\ Len(msg) = 2
    /\ Finished
    /\ Terminated

\* C20 (the count Write returns): an sW.Write(p) whose underlying write
\* took the whole frame returns the number of frame bytes, len(p) + 24 + 16,
\* which is more than the len(p) plaintext bytes it was given.
C20_WriteCount ==
    \A e \in Ends :
        (/\ wr[e].op = "frame"
         /\ wr[e].err = "nil"
         /\ wr[e].n = Len(LastSent(e)))
        => /\ wret[e].err = "nil"
           /\ wret[e].n = Len(Plain(e)) + NonceSize + Overhead
           /\ wret[e].n > Len(Plain(e))
           /\ wret[e].n # Len(Plain(e))

\* the client's Write of a three-byte message returned 43
C20_Witness ==
    /\ Len(msg) = 3
    /\ wr["c"] = [op |-> "frame", n |-> 43, err |-> "nil"]
    /\ wret["c"] = [n |-> 43, err |-> "nil"]
    /\ cpc = "read"

=============================================================================
